---- MODULE Spec2Model ----
(***************************************************************************)
(* Model of the LPC55 PUF driver (lib/lpc55-puf/src/lib.rs) and of the     *)
(* DHCP client task (task/dhcp/src/main.rs).                               *)
(*                                                                         *)
(* A 32-bit register value is the set of its set bit positions (a subset   *)
(* of 0..31), so that the Rust operators &, |, !, << and >> become set     *)
(* operations of the same width.                                           *)
(***************************************************************************)
EXTENDS Integers, Naturals, Sequences, FiniteSets, TLC

\* ------------------------------------------------------------------ bounds
\* number of extra code words the PUF may emit beyond the programmed size
MaxHwExtra == 1
\* most code words the PUF requests / key words it emits in the common
\* specification (GETKEY streaming)
MaxHwIn == 2
MaxHwKeyWords == 1
\* largest key length and largest index the functions are applied to
MaxKeyLen == 128
MaxIndex == 16
\* packets the incoming / outgoing socket queue holds, restarts of the net
\* task, and the milliseconds that pass in one step of the clock
MaxRx == 2
MaxTx == 1
MaxRestarts == 1
TickMs == 5000

\* ------------------------------------------------------- 32-bit arithmetic
Bits32 == 0 .. 31

RECURSIVE U32(_, _)
\* the bit set of the number n, starting at bit position k
U32(n, k) ==
    IF n = 0 \/ k > 31 THEN {}
    ELSE (IF n % 2 = 1 THEN {k} ELSE {}) \cup U32(n \div 2, k + 1)

RECURSIVE ToNat(_)
\* the number of a bit set (used only for values below 2^31)
ToNat(b) ==
    IF b = {} THEN 0
    ELSE LET k == CHOOSE x \in b : \A y \in b : y <= x
         IN  2 ^ k + ToNat(b \ {k})

BitAnd(a, b) == a \cap b
BitOr(a, b) == a \cup b
Not32(a) == Bits32 \ a
Shl32(a, n) == {k + n : k \in a} \cap Bits32
Shr32(a, n) == {k - n : k \in {j \in a : j >= n}}

\* a panic of a function that returns a number
PANIC == 0 - 1
\* a Rust bool as the driver returns it
B(b) == IF b THEN "true" ELSE "false"

\* ------------------------------------------------------------- LockState
LockState_WritesEnabled == 2
LockState_Locked == 1

\* ------------------------------------------------------------ Index codec
\* mutant of disable_index_bits: the `index % 8` is forgotten
disable_index_bits_nomod(bits, index) ==
    BitOr(BitAnd(bits, Not32(Shl32(U32(2, 0), index * 2))),
          Shl32(U32(1, 0), index * 2))

\* mutant of disable_index_bits: the enable bit is not cleared
disable_index_bits_noclear(bits, index) ==
    LET i == index % 8
    IN  BitOr(bits, Shl32(U32(1, 0), i * 2))

disable_index_bits(bits, index) ==
    LET i == index % 8
    IN  BitOr(BitAnd(bits, Not32(Shl32(U32(2, 0), i * 2))),
              Shl32(U32(1, 0), i * 2))

\* mutant of enable_index_bits: the `index % 8` is forgotten
enable_index_bits_nomod(bits, index) ==
    BitOr(BitAnd(bits, Not32(Shl32(U32(1, 0), index * 2))),
          Shl32(U32(2, 0), index * 2))

enable_index_bits(bits, index) ==
    LET i == index % 8
    IN  BitOr(BitAnd(bits, Not32(Shl32(U32(1, 0), i * 2))),
              Shl32(U32(2, 0), i * 2))

\* mutant of index_from_keycode: the mask keeps three bits only
index_from_keycode_mask7(kc) ==
    IF Len(kc) = 0 THEN PANIC
    ELSE ToNat(BitAnd(Shr32(kc[1], 8), U32(7, 0)))

\* keycode[0] >> 8 & 0xf ; the empty key code panics
index_from_keycode(kc) ==
    IF Len(kc) = 0 THEN PANIC
    ELSE ToNat(BitAnd(Shr32(kc[1], 8), U32(15, 0)))

\* ------------------------------------------------------ Size/length codec
\* 20 + ((key_len + 31) & !31); panics unless key_len % 8 = 0
\* mutant of key_to_keycode_len: the length is not checked
key_to_keycode_len_nocheck(key_len) ==
    20 + ToNat(BitAnd(U32(key_len + 31, 0), Not32(U32(31, 0))))

\* mutant of key_to_keycode_len: 32 is added before the low bits are cleared
key_to_keycode_len_add32(key_len) ==
    IF key_len % 8 # 0 THEN PANIC
    ELSE 20 + ToNat(BitAnd(U32(key_len + 32, 0), Not32(U32(31, 0))))

key_to_keycode_len(key_len) ==
    IF key_len % 8 # 0 THEN PANIC
    ELSE 20 + ToNat(BitAnd(U32(key_len + 31, 0), Not32(U32(31, 0))))

\* the value set_key_size computes: (size * 8) >> 6
key_size_encoding(size) == (size * 8) \div 64

\* ------------------------------------------------------ model parameters
\* the IDXBLK_L / IDXBLK_H values the PUF can hold when the driver is
\* constructed: every index enabled and writes enabled (reset), or - for the
\* high register - the state the ROM leaves: index 15 blocked, locked
IdxblkReset == U32(43690, 0) \cup {31}
IdxblkRom == (U32(27306, 0) \cup {30})
\* indices the callers pass to the index access control
BlockIndices == {0, 3, 15, 16}
\* arguments (index, key_len) of generate_keycode
GenArgs == {<<3, 8>>, <<3, 12>>, <<16, 8>>, <<3, 256>>}
\* key output buffer lengths (bytes) handed to get_key
KeyBufLens == {2, 4}

\* the code word the PUF emits at position j of a key code for key index
\* `index`: word 0 carries the index in bits 8..11 (0x04000001 | index << 8)
KcWord(index, j) ==
    IF j = 0 THEN U32(67108865, 0) \cup Shl32(U32(index, 0), 8)
    ELSE U32(j, 0) \cup {16}

MkKeyCode(index, n) == [j \in 1 .. n |-> KcWord(index, j - 1)]

\* key codes handed to get_key
KeyCodes ==
    {<<>>, MkKeyCode(0, 1), MkKeyCode(3, 1), MkKeyCode(15, 2)}

\* the j-th word the PUF puts in KEYOUTPUT (0x01020304 + j)
KeyWord(j) == U32(16909060 + j, 0)

\* mutant of to_ne_bytes: the most significant byte comes first
to_be_bytes(w) == [k \in 1 .. 4 |-> ToNat(BitAnd(Shr32(w, 8 * (4 - k)), U32(255, 0)))]

\* u32::to_ne_bytes on the little-endian Cortex-M33: byte k is bits 8k..8k+7
to_ne_bytes(w) == [k \in 1 .. 4 |-> ToNat(BitAnd(Shr32(w, 8 * (k - 1)), U32(255, 0)))]

Zeros(n, z) == [j \in 1 .. n |-> z]

\* ---------------------------------------------------------------- state
VARIABLES
    idxblk_l, idxblk_h, idxblk_l_dp, idxblk_h_dp,  \* blocking registers
    keyindex, keysize,                             \* KEYINDEX, KEYSIZE
    allow, stat, pwrctrl,                          \* ALLOW, STAT, PWRCTRL
    hw,                                            \* progress of the PUF
    pc, call, keycode, key, idx, kc_idx, key_idx,  \* the driver call
    ret, writes,                                   \* its result and writes
    uds,                                           \* history of index 15
    applied,                                       \* last pure function applied
    current_state, dhcp_pc,                             \* the DHCP task
    rx, tx, notif, net_gen, seen_gen,              \* its socket, the net task
    left, armed,                                   \* its timer
    leds                                           \* the user LEDs

regsIdx == <<idxblk_l, idxblk_h, idxblk_l_dp, idxblk_h_dp>>
regsCmd == <<keyindex, keysize, allow, stat, hw>>
regsPwr == <<pwrctrl>>
drv == <<pc, call, keycode, key, idx, kc_idx, key_idx, ret, writes>>
vars == <<idxblk_l, idxblk_h, idxblk_l_dp, idxblk_h_dp, keyindex, keysize,
          allow, stat, pwrctrl, hw, pc, call, keycode, key, idx, kc_idx,
          key_idx, ret, writes, uds, applied, current_state, dhcp_pc, rx, tx,
          notif, net_gen, seen_gen, left, armed, leds>>
task == <<current_state, dhcp_pc, rx, tx, notif, net_gen, seen_gen, left, armed,
          leds>>

HwIdle == [cmd |-> "none", phase |-> "idle", out_left |-> 0, emitted |-> 0,
           in_left |-> 0, key_left |-> 0, keyout |-> 0]
StatIdle == [busy |-> FALSE, error |-> FALSE, success |-> FALSE,
             codeoutavail |-> FALSE, keyoutavail |-> FALSE,
             codeinreq |-> FALSE]

NotApplied == [fn |-> "none", arg |-> 0, index |-> 0, res |-> 0, done |-> FALSE]

\* the DHCP task before main runs: nothing queued, no timer, LEDs off
InitTask ==
    /\ current_state = "Discover"
    /\ dhcp_pc = "main"
    /\ rx = <<>>
    /\ tx = <<>>
    /\ notif = {}
    /\ net_gen = 0
    /\ seen_gen = 0
    /\ left = 0
    /\ armed = FALSE
    /\ leds = [l \in 0 .. 2 |-> FALSE]

InitRegs ==
    /\ idxblk_l = IdxblkReset
    /\ idxblk_h \in {IdxblkReset, IdxblkRom}
    /\ idxblk_l_dp = BitAnd(idxblk_l, U32(65535, 0))
    /\ idxblk_h_dp = BitAnd(idxblk_h, U32(65535, 0))
    /\ keyindex = 0
    /\ keysize = 1
    /\ \E a \in BOOLEAN :
          allow = [allowenroll |-> FALSE, allowstart |-> FALSE,
                   allowsetkey |-> a, allowgetkey |-> a]
    /\ stat = StatIdle
    /\ pwrctrl = [ramon |-> TRUE, ramstat |-> TRUE]
    /\ hw = HwIdle
    /\ pc = "idle"
    /\ call = [op |-> "new", index |-> 0, key_len |-> 0]
    /\ keycode = <<>>
    /\ key = <<>>
    /\ idx = 0
    /\ kc_idx = 0
    /\ key_idx = 0
    /\ ret = "none"
    /\ writes = <<>>
    /\ applied = NotApplied
    /\ InitTask

Init == InitRegs /\ uds = "off"

\* the same, with the history of index 15 recorded
InitUds == InitRegs /\ uds = "none"

\* ------------------------------------------------- Index access control
get_lock_state(idxblk) ==
    LET n == ToNat(Shr32(idxblk, 30))
    IN  IF n = LockState_WritesEnabled THEN "WritesEnabled"
        ELSE IF n = LockState_Locked THEN "Locked"
        ELSE "None"

\* mutant of is_locked: only "writes enabled" counts as not locked
is_locked_reserved(idxblk) == get_lock_state(idxblk) # "WritesEnabled"

is_locked(idxblk) == get_lock_state(idxblk) = "Locked"

is_idxblk_l_locked == is_locked(idxblk_l)
is_idxblk_h_locked == is_locked(idxblk_h)

is_index_locked(index) ==
    IF index \in 1 .. 7 THEN B(is_idxblk_l_locked)
    ELSE IF index \in 8 .. 15 THEN B(is_idxblk_h_locked)
    ELSE "panic:invalid index"

\* mutant of is_index_blocked: index 0 is read from field 0 of IDXBLK_L
is_index_blocked_zero(index) ==
    IF index \in 0 .. 7
    THEN B(BitAnd(idxblk_l, Shl32(U32(1, 0), index * 2)) # {})
    ELSE IF index \in 8 .. 15
    THEN B(BitAnd(idxblk_h, Shl32(U32(1, 0), (index - 8) * 2)) # {})
    ELSE "panic:invalid index"

\* mutant of is_index_blocked: the `index - 8` of the 8..=15 arm is forgotten
is_index_blocked_noadj(index) ==
    IF index \in 1 .. 7
    THEN B(BitAnd(idxblk_l, Shl32(U32(1, 0), index * 2)) # {})
    ELSE IF index \in 8 .. 15
    THEN B(BitAnd(idxblk_h, Shl32(U32(1, 0), index * 2)) # {})
    ELSE "panic:invalid index"

is_index_blocked(index) ==
    IF index \in 1 .. 7
    THEN B(BitAnd(idxblk_l, Shl32(U32(1, 0), index * 2)) # {})
    ELSE IF index \in 8 .. 15
    THEN B(BitAnd(idxblk_h, Shl32(U32(1, 0), (index - 8) * 2)) # {})
    ELSE "panic:invalid index"

\* A write to IDXBLK_L / IDXBLK_H: a locked register keeps its value until
\* power-on reset ("This prevents changes to the PUF key index blocking
\* registers until POR").
IdxblkWrite(old, new) == IF is_locked(old) THEN old ELSE new

\* A write to IDXBLK_L_DP / IDXBLK_H_DP.  Whether the lock of the primary
\* register also covers its DP register is not determined: both outcomes.
IdxblkDpWrite(primary, old, new) ==
    IF is_locked(primary) THEN {old, new} ELSE {new}

W(reg, val) == [reg |-> reg, val |-> val]

\* Results of a call: "true", "false", "unit", or the message of a panic.
\* A panic ends the task that owns the driver: no call follows it.
Panics == {"panic:PufCmdDisallowed", "panic:key length not a multiple of 8",
           "panic:PufKeyCode", "panic:PufCmdAccept", "panic:PufKCTooLong",
           "panic:invalid keycode", "panic:invalid index",
           "panic:index out of bounds"}
After(r) == IF r \in Panics THEN "panicked" ELSE "idle"

\* The history of index 15, recorded when uds starts as "none" (it stays
\* "off" otherwise): "blocked" once block_index(15) has returned true and
\* unblock_index(15) was not called since, "sealed" once lock_indices_high
\* was called in that state.
UdsBlock(index) ==
    IF uds = "none" /\ index = 15 THEN "blocked" ELSE uds
UdsUnblock(index) ==
    IF uds = "blocked" /\ index = 15 THEN "none" ELSE uds
UdsLockHigh ==
    IF uds = "blocked" THEN "sealed" ELSE uds

\* a call that returns at once: result r, register writes w
Return(op, index, r, w) ==
    /\ pc' = "idle"
    /\ call' = [op |-> op, index |-> index, key_len |-> 0]
    /\ keycode' = <<>>
    /\ key' = <<>>
    /\ idx' = 0
    /\ kc_idx' = 0
    /\ key_idx' = 0
    /\ ret' = r
    /\ writes' = w

\* mutant of block_index: the 8..=15 arm writes the DP register of the
\* low register
block_index_wrongdp(index) ==
    /\ pc = "idle"
    /\ IF index \in 1 .. 7 THEN
           LET idxblk == disable_index_bits(idxblk_l, index)
               dp == BitAnd(idxblk, U32(65535, 0))
           IN  /\ idxblk_l' = IdxblkWrite(idxblk_l, idxblk)
               /\ idxblk_l_dp' \in IdxblkDpWrite(idxblk_l, idxblk_l_dp, dp)
               /\ UNCHANGED <<idxblk_h, idxblk_h_dp>>
               /\ Return("block_index", index, "true",
                         <<W("idxblk_l", idxblk), W("idxblk_l_dp", dp)>>)
       ELSE IF index \in 8 .. 15 THEN
           LET idxblk == disable_index_bits(idxblk_h, index)
               dp == BitAnd(idxblk, U32(65535, 0))
           IN  /\ idxblk_h' = IdxblkWrite(idxblk_h, idxblk)
               /\ idxblk_l_dp' \in IdxblkDpWrite(idxblk_l, idxblk_l_dp, dp)
               /\ UNCHANGED <<idxblk_l, idxblk_h_dp>>
               /\ Return("block_index", index, "true",
                         <<W("idxblk_h", idxblk), W("idxblk_l_dp", dp)>>)
       ELSE
           /\ UNCHANGED regsIdx
           /\ Return("block_index", index, "false", <<>>)
    /\ uds' = UdsBlock(index)
    /\ UNCHANGED <<regsCmd, regsPwr, applied, task>>

\* block_index: the match on the index, the write of IDXBLK_L / IDXBLK_H
\* and of its DP register
block_index(index) ==
    /\ pc = "idle"
    /\ IF index \in 1 .. 7 THEN
           LET idxblk == disable_index_bits(idxblk_l, index)
               dp == BitAnd(idxblk, U32(65535, 0))
           IN  /\ idxblk_l' = IdxblkWrite(idxblk_l, idxblk)
               /\ idxblk_l_dp' \in IdxblkDpWrite(idxblk_l, idxblk_l_dp, dp)
               /\ UNCHANGED <<idxblk_h, idxblk_h_dp>>
               /\ Return("block_index", index, "true",
                         <<W("idxblk_l", idxblk), W("idxblk_l_dp", dp)>>)
       ELSE IF index \in 8 .. 15 THEN
           LET idxblk == disable_index_bits(idxblk_h, index)
               dp == BitAnd(idxblk, U32(65535, 0))
           IN  /\ idxblk_h' = IdxblkWrite(idxblk_h, idxblk)
               /\ idxblk_h_dp' \in IdxblkDpWrite(idxblk_h, idxblk_h_dp, dp)
               /\ UNCHANGED <<idxblk_l, idxblk_l_dp>>
               /\ Return("block_index", index, "true",
                         <<W("idxblk_h", idxblk), W("idxblk_h_dp", dp)>>)
       ELSE
           /\ UNCHANGED regsIdx
           /\ Return("block_index", index, "false", <<>>)
    /\ uds' = UdsBlock(index)
    /\ UNCHANGED <<regsCmd, regsPwr, applied, task>>

\* unblock_index: the same with enable_index_bits
unblock_index(index) ==
    /\ pc = "idle"
    /\ IF index \in 1 .. 7 THEN
           LET idxblk == enable_index_bits(idxblk_l, index)
               dp == BitAnd(idxblk, U32(65535, 0))
           IN  /\ idxblk_l' = IdxblkWrite(idxblk_l, idxblk)
               /\ idxblk_l_dp' \in IdxblkDpWrite(idxblk_l, idxblk_l_dp, dp)
               /\ UNCHANGED <<idxblk_h, idxblk_h_dp>>
               /\ Return("unblock_index", index, "true",
                         <<W("idxblk_l", idxblk), W("idxblk_l_dp", dp)>>)
       ELSE IF index \in 8 .. 15 THEN
           LET idxblk == enable_index_bits(idxblk_h, index)
               dp == BitAnd(idxblk, U32(65535, 0))
           IN  /\ idxblk_h' = IdxblkWrite(idxblk_h, idxblk)
               /\ idxblk_h_dp' \in IdxblkDpWrite(idxblk_h, idxblk_h_dp, dp)
               /\ UNCHANGED <<idxblk_l, idxblk_l_dp>>
               /\ Return("unblock_index", index, "true",
                         <<W("idxblk_h", idxblk), W("idxblk_h_dp", dp)>>)
       ELSE
           /\ UNCHANGED regsIdx
           /\ Return("unblock_index", index, "false", <<>>)
    /\ uds' = UdsUnblock(index)
    /\ UNCHANGED <<regsCmd, regsPwr, applied, task>>

\* mutant of LockBits: the two bits are exchanged
LockBits_swapped(bits) ==
    BitOr(BitAnd(bits, Not32(Shl32(U32(1, 0), 30))), Shl32(U32(1, 0), 31))

\* r.bits() & !(1 << 31) | 1 << 30
LockBits(bits) ==
    BitOr(BitAnd(bits, Not32(Shl32(U32(1, 0), 31))), Shl32(U32(1, 0), 30))

lock_indices_low ==
    /\ pc = "idle"
    /\ idxblk_l' = IdxblkWrite(idxblk_l, LockBits(idxblk_l))
    /\ UNCHANGED <<idxblk_h, idxblk_l_dp, idxblk_h_dp>>
    /\ Return("lock_indices_low", 0, "unit",
              <<W("idxblk_l", LockBits(idxblk_l))>>)
    /\ UNCHANGED <<regsCmd, regsPwr, applied, task, uds>>

lock_indices_high ==
    /\ pc = "idle"
    /\ idxblk_h' = IdxblkWrite(idxblk_h, LockBits(idxblk_h))
    /\ UNCHANGED <<idxblk_l, idxblk_l_dp, idxblk_h_dp>>
    /\ Return("lock_indices_high", 0, "unit",
              <<W("idxblk_h", LockBits(idxblk_h))>>)
    /\ uds' = UdsLockHigh
    /\ UNCHANGED <<regsCmd, regsPwr, applied, task>>

\* ----------------------------------------------------- Command sequencer
\* a call in progress: the driver variables that the step leaves alone
Step(next) ==
    /\ pc' = next
    /\ UNCHANGED <<call, ret>>

\* writing a command bit to CTRL: the PUF starts a new operation
CtrlWrite(cmd) ==
    /\ hw' = [HwIdle EXCEPT !.cmd = cmd, !.phase = "pending"]
    /\ stat' = StatIdle

\* set_key_index: the write of KEYINDEX, refused for index > 15
set_key_index(index) ==
    IF index > 15 THEN [ok |-> FALSE, reg |-> keyindex, w |-> <<>>]
    ELSE [ok |-> TRUE, reg |-> index, w |-> <<W("keyindex", index)>>]

\* set_key_size: the write of KEYSIZE, refused for an encoding >= 32
set_key_size(size) ==
    LET enc == key_size_encoding(size)
    IN  IF enc < 32 THEN [ok |-> TRUE, reg |-> enc, w |-> <<W("keysize", enc)>>]
        ELSE [ok |-> FALSE, reg |-> keysize, w |-> <<>>]

\* a call that ends before the polling loops: result r, register writes w
Abort(op, index, key_len, kc, k, r, w) ==
    /\ pc' = After(r)
    /\ call' = [op |-> op, index |-> index, key_len |-> key_len]
    /\ keycode' = kc
    /\ key' = k
    /\ idx' = 0
    /\ kc_idx' = 0
    /\ key_idx' = 0
    /\ ret' = r
    /\ writes' = w

\* generate_keycode up to the write of the GENERATEKEY bit (lines 75-89);
\* buflen is keycode.len()
generate_keycode(index, key_len, buflen) ==
    /\ pc = "idle"
    /\ LET buf == Zeros(buflen, {})
           kl == key_to_keycode_len(key_len)
       IN  IF ~allow.allowsetkey THEN
               /\ Abort("generate_keycode", index, key_len, buf, <<>>,
                        "panic:PufCmdDisallowed", <<>>)
               /\ UNCHANGED <<keyindex, keysize, stat, hw>>
           ELSE IF kl = PANIC THEN
               /\ Abort("generate_keycode", index, key_len, buf, <<>>,
                        "panic:key length not a multiple of 8", <<>>)
               /\ UNCHANGED <<keyindex, keysize, stat, hw>>
           ELSE IF buflen < kl \div 4 THEN
               /\ Abort("generate_keycode", index, key_len, buf, <<>>,
                        "panic:PufKeyCode", <<>>)
               /\ UNCHANGED <<keyindex, keysize, stat, hw>>
           ELSE
               /\ keyindex' = set_key_index(index).reg
               /\ keysize' = set_key_size(key_len).reg
               /\ CtrlWrite("generatekey")
               /\ pc' = "acc_busy"
               /\ call' = [op |-> "generate_keycode", index |-> index,
                           key_len |-> key_len]
               /\ keycode' = buf
               /\ key' = <<>>
               /\ idx' = 0
               /\ kc_idx' = 0
               /\ key_idx' = 0
               /\ ret' = "none"
               /\ writes' = set_key_index(index).w \o set_key_size(key_len).w
                            \o <<W("ctrl", "generatekey")>>
    /\ UNCHANGED <<regsIdx, allow, regsPwr, applied, task, uds>>

\* wait_for_cmd_accept: `while !self.is_busy() && !self.is_error() {}`
acc_busy ==
    /\ pc = "acc_busy"
    /\ Step(IF stat.busy THEN "acc_ret" ELSE "acc_error")
    /\ UNCHANGED <<regsIdx, regsCmd, regsPwr, applied, task, uds,
                   keycode, key, idx, kc_idx, key_idx, writes>>

\* mutant of acc_error: the accept loop tests busy only
acc_error_ignored ==
    /\ pc = "acc_error"
    /\ Step("acc_busy")
    /\ UNCHANGED <<regsIdx, regsCmd, regsPwr, applied, task, uds,
                   keycode, key, idx, kc_idx, key_idx, writes>>

acc_error ==
    /\ pc = "acc_error"
    /\ Step(IF stat.error THEN "acc_ret" ELSE "acc_busy")
    /\ UNCHANGED <<regsIdx, regsCmd, regsPwr, applied, task, uds,
                   keycode, key, idx, kc_idx, key_idx, writes>>

\* mutant of acc_ret: the result of wait_for_cmd_accept is dropped by
\* generate_keycode as it is by get_key
acc_ret_dropped ==
    /\ pc = "acc_ret"
    /\ IF call.op = "generate_keycode" THEN pc' = "gen_busy" /\ ret' = ret
       ELSE pc' = "gk_busy" /\ ret' = ret
    /\ UNCHANGED <<regsIdx, regsCmd, regsPwr, applied, task, uds,
                   call, keycode, key, idx, kc_idx, key_idx, writes>>

\* mutant of acc_ret: get_key panics on a rejected command as
\* generate_keycode does
acc_ret_fatal ==
    /\ pc = "acc_ret"
    /\ IF stat.error
       THEN pc' = "panicked" /\ ret' = "panic:PufCmdAccept"
       ELSE IF call.op = "generate_keycode"
       THEN pc' = "gen_busy" /\ ret' = ret
       ELSE pc' = "gk_busy" /\ ret' = ret
    /\ UNCHANGED <<regsIdx, regsCmd, regsPwr, applied, task, uds,
                   call, keycode, key, idx, kc_idx, key_idx, writes>>

\* wait_for_cmd_accept returns !self.is_error(); generate_keycode panics
\* on false, get_key drops the value
acc_ret ==
    /\ pc = "acc_ret"
    /\ IF call.op = "generate_keycode" THEN
           IF stat.error
           THEN pc' = "panicked" /\ ret' = "panic:PufCmdAccept"
           ELSE pc' = "gen_busy" /\ ret' = ret
       ELSE pc' = "gk_busy" /\ ret' = ret
    /\ UNCHANGED <<regsIdx, regsCmd, regsPwr, applied, task, uds,
                   call, keycode, key, idx, kc_idx, key_idx, writes>>

\* `while self.is_busy()` and the bound check of the loop body
gen_busy ==
    /\ pc = "gen_busy"
    /\ IF ~stat.busy THEN pc' = "gen_ret" /\ ret' = ret
       ELSE IF idx > Len(keycode) - 1
       THEN pc' = "panicked" /\ ret' = "panic:PufKCTooLong"
       ELSE pc' = "gen_avail" /\ ret' = ret
    /\ UNCHANGED <<regsIdx, regsCmd, regsPwr, applied, task, uds,
                   call, keycode, key, idx, kc_idx, key_idx, writes>>

\* mutant of gen_avail: the word is stored but idx is not advanced
gen_avail_noinc ==
    /\ pc = "gen_avail"
    /\ IF stat.codeoutavail THEN
           /\ keycode' = [keycode EXCEPT ![idx + 1] = KcWord(keyindex, hw.emitted)]
           /\ idx' = idx
           /\ stat' = [stat EXCEPT !.codeoutavail = FALSE]
           /\ hw' = [hw EXCEPT !.emitted = @ + 1]
       ELSE UNCHANGED <<keycode, idx, stat, hw>>
    /\ Step("gen_busy")
    /\ UNCHANGED <<regsIdx, keyindex, keysize, allow, regsPwr, applied, task, uds,
                   key, kc_idx, key_idx, writes>>

\* `if self.is_keycode_part_avail()`: read CODEOUTPUT into keycode[idx]
gen_avail ==
    /\ pc = "gen_avail"
    /\ IF stat.codeoutavail THEN
           /\ keycode' = [keycode EXCEPT ![idx + 1] = KcWord(keyindex, hw.emitted)]
           /\ idx' = idx + 1
           /\ stat' = [stat EXCEPT !.codeoutavail = FALSE]
           /\ hw' = [hw EXCEPT !.emitted = @ + 1]
       ELSE UNCHANGED <<keycode, idx, stat, hw>>
    /\ Step("gen_busy")
    /\ UNCHANGED <<regsIdx, keyindex, keysize, allow, regsPwr, applied, task, uds,
                   key, kc_idx, key_idx, writes>>

\* mutant of gen_ret: the end of busy is taken for success
gen_ret_busy ==
    /\ pc = "gen_ret"
    /\ pc' = "idle"
    /\ ret' = IF ~stat.busy THEN "true" ELSE "false"
    /\ UNCHANGED <<regsIdx, regsCmd, regsPwr, applied, task, uds,
                   call, keycode, key, idx, kc_idx, key_idx, writes>>

\* `self.is_success()` as the return value of generate_keycode
gen_ret ==
    /\ pc = "gen_ret"
    /\ pc' = "idle"
    /\ ret' = IF stat.success THEN "true" ELSE "false"
    /\ UNCHANGED <<regsIdx, regsCmd, regsPwr, applied, task, uds,
                   call, keycode, key, idx, kc_idx, key_idx, writes>>

\* mutant of get_key_gate: the check of the blocking registers is left out
get_key_gate_nocheck(kc) ==
    IF ~allow.allowgetkey THEN "false"
    ELSE IF index_from_keycode(kc) = PANIC THEN "panic:invalid keycode"
    ELSE "issue"

\* mutant of get_key_gate: the key code is decoded before the allow bit is
\* read
get_key_gate_late(kc) ==
    IF index_from_keycode(kc) = PANIC THEN "panic:invalid keycode"
    ELSE IF is_index_blocked(index_from_keycode(kc)) = "true" THEN "false"
    ELSE IF is_index_blocked(index_from_keycode(kc)) # "false"
    THEN is_index_blocked(index_from_keycode(kc))
    ELSE IF ~allow.allowgetkey THEN "false"
    ELSE "issue"

\* the early returns of get_key (lines 121-132): the result of the call, or
\* "issue" when the GETKEY command is to be written
get_key_gate(kc) ==
    IF ~allow.allowgetkey THEN "false"
    ELSE IF index_from_keycode(kc) = PANIC THEN "panic:invalid keycode"
    ELSE IF is_index_blocked(index_from_keycode(kc)) = "true" THEN "false"
    ELSE IF is_index_blocked(index_from_keycode(kc)) # "false"
    THEN is_index_blocked(index_from_keycode(kc))
    ELSE "issue"

\* get_key up to the write of the GETKEY bit (lines 120-137); keylen is
\* key.len()
get_key(kc, keylen) ==
    /\ pc = "idle"
    /\ LET k == Zeros(keylen, 0)
           index == IF index_from_keycode(kc) = PANIC THEN 0
                    ELSE index_from_keycode(kc)
       IN  IF get_key_gate(kc) # "issue" THEN
               /\ Abort("get_key", index, 0, kc, k, get_key_gate(kc), <<>>)
               /\ UNCHANGED <<stat, hw>>
           ELSE
               /\ CtrlWrite("getkey")
               /\ pc' = "acc_busy"
               /\ call' = [op |-> "get_key", index |-> index, key_len |-> 0]
               /\ keycode' = kc
               /\ key' = k
               /\ idx' = 0
               /\ kc_idx' = 0
               /\ key_idx' = 0
               /\ ret' = "none"
               /\ writes' = <<W("ctrl", "getkey")>>
    /\ UNCHANGED <<regsIdx, keyindex, keysize, allow, regsPwr, applied, task, uds>>

\* `while self.is_busy() && !self.is_error()`: the two reads of STAT
gk_busy ==
    /\ pc = "gk_busy"
    /\ Step(IF stat.busy THEN "gk_error" ELSE "gk_ret")
    /\ UNCHANGED <<regsIdx, regsCmd, regsPwr, applied, task, uds,
                   keycode, key, idx, kc_idx, key_idx, writes>>

gk_error ==
    /\ pc = "gk_error"
    /\ Step(IF stat.error THEN "gk_ret" ELSE "gk_req")
    /\ UNCHANGED <<regsIdx, regsCmd, regsPwr, applied, task, uds,
                   keycode, key, idx, kc_idx, key_idx, writes>>

\* mutant of gk_req: the word is written but kc_idx is not advanced
gk_req_noinc ==
    /\ pc = "gk_req"
    /\ IF ~stat.codeinreq THEN
           /\ Step("gk_avail")
           /\ UNCHANGED <<kc_idx, writes, stat, hw>>
       ELSE IF kc_idx >= Len(keycode) THEN
           /\ pc' = "panicked"
           /\ ret' = "panic:index out of bounds"
           /\ UNCHANGED <<call, kc_idx, writes, stat, hw>>
       ELSE
           /\ writes' = Append(writes, W("codeinput", keycode[kc_idx + 1]))
           /\ kc_idx' = kc_idx
           /\ stat' = [stat EXCEPT !.codeinreq = FALSE]
           /\ hw' = [hw EXCEPT !.in_left = @ - 1]
           /\ Step("gk_avail")
    /\ UNCHANGED <<regsIdx, keyindex, keysize, allow, regsPwr, applied, task, uds,
                   keycode, key, idx, key_idx>>

\* `if self.is_keycode_part_req()`: write keycode[kc_idx] to CODEINPUT
gk_req ==
    /\ pc = "gk_req"
    /\ IF ~stat.codeinreq THEN
           /\ Step("gk_avail")
           /\ UNCHANGED <<kc_idx, writes, stat, hw>>
       ELSE IF kc_idx >= Len(keycode) THEN
           /\ pc' = "panicked"
           /\ ret' = "panic:index out of bounds"
           /\ UNCHANGED <<call, kc_idx, writes, stat, hw>>
       ELSE
           /\ writes' = Append(writes, W("codeinput", keycode[kc_idx + 1]))
           /\ kc_idx' = kc_idx + 1
           /\ stat' = [stat EXCEPT !.codeinreq = FALSE]
           /\ hw' = [hw EXCEPT !.in_left = @ - 1]
           /\ Step("gk_avail")
    /\ UNCHANGED <<regsIdx, keyindex, keysize, allow, regsPwr, applied, task, uds,
                   keycode, key, idx, key_idx>>

\* the bytes of `word` that fit in key from key_idx on
CopyBytes(k, at, word) ==
    [j \in 1 .. Len(k) |->
        IF j > at /\ j <= at + 4 THEN to_ne_bytes(word)[j - at] ELSE k[j]]

\* mutant of gk_avail: the bytes that do not fit are dropped
gk_avail_truncate ==
    /\ pc = "gk_avail"
    /\ IF ~stat.keyoutavail THEN
           /\ Step("gk_busy")
           /\ UNCHANGED <<key, key_idx, stat, hw>>
       ELSE
           /\ key' = CopyBytes(key, key_idx, KeyWord(hw.keyout))
           /\ stat' = [stat EXCEPT !.keyoutavail = FALSE]
           /\ hw' = [hw EXCEPT !.keyout = @ + 1]
           /\ key_idx' = IF key_idx + 4 > Len(key) THEN Len(key)
                          ELSE key_idx + 4
           /\ Step("gk_busy")
    /\ UNCHANGED <<regsIdx, keyindex, keysize, allow, regsPwr, applied, task, uds,
                   keycode, idx, kc_idx, writes>>

\* `if self.is_key_part_avail()`: read KEYOUTPUT and store its bytes, one
\* at a time, panicking at the first byte past the end of key
gk_avail ==
    /\ pc = "gk_avail"
    /\ IF ~stat.keyoutavail THEN
           /\ Step("gk_busy")
           /\ UNCHANGED <<key, key_idx, stat, hw>>
       ELSE
           /\ key' = CopyBytes(key, key_idx, KeyWord(hw.keyout))
           /\ stat' = [stat EXCEPT !.keyoutavail = FALSE]
           /\ hw' = [hw EXCEPT !.keyout = @ + 1]
           /\ IF key_idx + 4 > Len(key)
              THEN /\ key_idx' = Len(key)
                   /\ pc' = "panicked"
                   /\ ret' = "panic:index out of bounds"
                   /\ UNCHANGED call
              ELSE /\ key_idx' = key_idx + 4
                   /\ Step("gk_busy")
    /\ UNCHANGED <<regsIdx, keyindex, keysize, allow, regsPwr, applied, task, uds,
                   keycode, idx, kc_idx, writes>>

\* `self.is_success()` as the return value of get_key
gk_ret ==
    /\ pc = "gk_ret"
    /\ pc' = "idle"
    /\ ret' = B(stat.success)
    /\ UNCHANGED <<regsIdx, regsCmd, regsPwr, applied, task, uds,
                   call, keycode, key, idx, kc_idx, key_idx, writes>>

\* --------------------------------------------------------- Power control
\* mutant of disable_sram: the wait for ramstat is left out
disable_sram_nowait ==
    /\ pc = "idle"
    /\ pwrctrl' = [pwrctrl EXCEPT !.ramon = FALSE]
    /\ Return("disable_sram", 0, "unit", <<W("pwrctrl", "ramon clear")>>)
    /\ UNCHANGED <<regsIdx, regsCmd, applied, task, uds>>

\* disable_sram up to the write of PWRCTRL
disable_sram ==
    /\ pc = "idle"
    /\ pwrctrl' = [pwrctrl EXCEPT !.ramon = FALSE]
    /\ pc' = "sram_wait"
    /\ call' = [op |-> "disable_sram", index |-> 0, key_len |-> 0]
    /\ keycode' = <<>>
    /\ key' = <<>>
    /\ idx' = 0
    /\ kc_idx' = 0
    /\ key_idx' = 0
    /\ ret' = "none"
    /\ writes' = <<W("pwrctrl", "ramon clear")>>
    /\ UNCHANGED <<regsIdx, regsCmd, applied, task, uds>>

\* `while self.is_sram_ready() {}`
sram_wait ==
    /\ pc = "sram_wait"
    /\ ~pwrctrl.ramstat
    /\ pc' = "idle"
    /\ ret' = "unit"
    /\ UNCHANGED <<regsIdx, regsCmd, regsPwr, applied, task, uds,
                   call, keycode, key, idx, kc_idx, key_idx, writes>>

enable_sram ==
    /\ pc = "idle"
    /\ pwrctrl' = [pwrctrl EXCEPT !.ramon = TRUE]
    /\ Return("enable_sram", 0, "unit", <<W("pwrctrl", "ramon set")>>)
    /\ UNCHANGED <<regsIdx, regsCmd, applied, task, uds>>

\* ------------------------------------------------------------- the PUF
\* number of code words of a key of the programmed size (KEYSIZE counts
\* 64-bit units)
HwCodeWords == key_to_keycode_len(keysize * 8) \div 4

\* the PUF accepts the command (busy) or rejects it (error); an accepted
\* GETKEY asks for the first word of the key code at least
HwAccept ==
    /\ hw.phase = "pending"
    /\ \/ /\ hw.cmd = "generatekey"
          /\ \E extra \in 0 .. MaxHwExtra :
                hw' = [hw EXCEPT !.phase = "run",
                                 !.out_left = HwCodeWords + extra]
          /\ stat' = [stat EXCEPT !.busy = TRUE]
       \/ /\ hw.cmd = "getkey"
          /\ \E n \in 1 .. MaxHwIn, m \in 0 .. MaxHwKeyWords :
                hw' = [hw EXCEPT !.phase = "run", !.in_left = n,
                                 !.key_left = m]
          /\ stat' = [stat EXCEPT !.busy = TRUE]
       \/ /\ hw' = [HwIdle EXCEPT !.cmd = hw.cmd, !.phase = "rejected"]
          /\ stat' = [stat EXCEPT !.error = TRUE]
    /\ UNCHANGED <<regsIdx, keyindex, keysize, allow, regsPwr, applied, task, uds, drv>>

\* a code word becomes available in CODEOUTPUT
HwCodeOut ==
    /\ hw.phase = "run" /\ hw.cmd = "generatekey"
    /\ hw.out_left > 0 /\ ~stat.codeoutavail
    /\ stat' = [stat EXCEPT !.codeoutavail = TRUE]
    /\ hw' = [hw EXCEPT !.out_left = @ - 1]
    /\ UNCHANGED <<regsIdx, keyindex, keysize, allow, regsPwr, applied, task, uds, drv>>

\* the PUF requests the next code word
HwCodeInReq ==
    /\ hw.phase = "run" /\ hw.cmd = "getkey"
    /\ hw.in_left > 0 /\ ~stat.codeinreq
    /\ stat' = [stat EXCEPT !.codeinreq = TRUE]
    /\ UNCHANGED <<regsIdx, keyindex, keysize, allow, hw, regsPwr, applied, task, uds, drv>>

\* a key word becomes available in KEYOUTPUT
HwKeyOut ==
    /\ hw.phase = "run" /\ hw.cmd = "getkey"
    /\ hw.key_left > 0 /\ ~stat.keyoutavail
    /\ stat' = [stat EXCEPT !.keyoutavail = TRUE]
    /\ hw' = [hw EXCEPT !.key_left = @ - 1]
    /\ UNCHANGED <<regsIdx, keyindex, keysize, allow, regsPwr, applied, task, uds, drv>>

\* the operation ends: busy is cleared and success or error is set
HwDone ==
    /\ hw.phase = "run"
    /\ ~stat.codeoutavail /\ ~stat.keyoutavail /\ ~stat.codeinreq
    /\ hw.out_left = 0 /\ hw.in_left = 0 /\ hw.key_left = 0
    /\ hw' = [HwIdle EXCEPT !.cmd = hw.cmd]
    /\ \E ok \in BOOLEAN :
          stat' = [stat EXCEPT !.busy = FALSE, !.success = ok, !.error = ~ok]
    /\ UNCHANGED <<regsIdx, keyindex, keysize, allow, regsPwr, applied, task, uds, drv>>

\* the operation hits an error while it runs: error is set, busy is not
\* cleared yet (the get_key loop tests both bits)
HwError ==
    /\ hw.phase = "run"
    /\ hw' = [HwIdle EXCEPT !.cmd = hw.cmd, !.phase = "failing"]
    /\ stat' = [stat EXCEPT !.error = TRUE,
                            !.codeoutavail = FALSE, !.keyoutavail = FALSE,
                            !.codeinreq = FALSE]
    /\ UNCHANGED <<regsIdx, keyindex, keysize, allow, regsPwr, applied, task, uds, drv>>

\* the operation fails while it runs: busy is cleared and error is set
HwFail ==
    /\ hw.phase \in {"run", "failing"}
    /\ hw' = [HwIdle EXCEPT !.cmd = hw.cmd]
    /\ stat' = [stat EXCEPT !.busy = FALSE, !.error = TRUE,
                            !.codeoutavail = FALSE, !.keyoutavail = FALSE,
                            !.codeinreq = FALSE]
    /\ UNCHANGED <<regsIdx, keyindex, keysize, allow, regsPwr, applied, task, uds, drv>>

\* number of key words of a key of the programmed size
HwKeyWords == keysize * 2

\* a PUF that accepts every command and moves exactly the words of a key
\* of the programmed size
HwAcceptExact ==
    /\ hw.phase = "pending"
    /\ hw' = [hw EXCEPT
                 !.phase = "run",
                 !.out_left = IF hw.cmd = "generatekey" THEN HwCodeWords ELSE 0,
                 !.in_left = IF hw.cmd = "getkey" THEN HwCodeWords ELSE 0,
                 !.key_left = IF hw.cmd = "getkey" THEN HwKeyWords ELSE 0]
    /\ stat' = [stat EXCEPT !.busy = TRUE]
    /\ UNCHANGED <<regsIdx, keyindex, keysize, allow, regsPwr, applied, task, uds, drv>>

\* ------------------------------------------------------ the specification
IndexControl ==
    \/ \E i \in BlockIndices : block_index(i)
    \/ \E i \in BlockIndices : unblock_index(i)
    \/ lock_indices_low
    \/ lock_indices_high

Calls ==
    \/ \E a \in GenArgs, short \in 0 .. 1 :
          generate_keycode(a[1], a[2],
              IF key_to_keycode_len(a[2]) = PANIC THEN 13
              ELSE key_to_keycode_len(a[2]) \div 4 - short)
    \/ \E kc \in KeyCodes, n \in KeyBufLens : get_key(kc, n)

Polls ==
    \/ acc_busy \/ acc_error \/ acc_ret
    \/ gen_busy \/ gen_avail \/ gen_ret
    \/ gk_busy \/ gk_error \/ gk_req \/ gk_avail \/ gk_ret

Puf ==
    \/ HwAccept \/ HwCodeOut \/ HwCodeInReq \/ HwKeyOut
    \/ HwDone \/ HwError \/ HwFail

Next == IndexControl \/ Calls \/ Polls \/ Puf

Spec == Init /\ [][Next]_vars

SpecUds == InitUds /\ [][Next]_vars

\* the end-to-end run: a 32-byte key is generated for index 3 into a
\* 13-word buffer, and the key code that call returned is passed to get_key
\* with a 32-byte key buffer; the PUF moves exactly the words of that key
InitE2E ==
    /\ InitRegs
    /\ uds = "off"
    /\ idxblk_h = IdxblkReset
    /\ allow.allowsetkey

E2ECalls ==
    \/ call.op = "new" /\ generate_keycode(3, 32, 13)
    \/ call.op = "generate_keycode" /\ ret = "true" /\ get_key(keycode, 32)

PufExact == HwAcceptExact \/ HwCodeOut \/ HwCodeInReq \/ HwKeyOut \/ HwDone

NextE2E == E2ECalls \/ Polls \/ PufExact

SpecE2E == InitE2E /\ [][NextE2E]_vars

\* ------------------------------------------- the calls that wait for the PUF
\* the PUF SRAM loses power after ramon was cleared: ramstat is cleared, and
\* the PUF may reset ("ENROLL & START allowed, GENERATEKEY & GETKEY
\* disallowed")
HwSramOff ==
    /\ ~pwrctrl.ramon /\ pwrctrl.ramstat
    /\ pwrctrl' = [pwrctrl EXCEPT !.ramstat = FALSE]
    /\ allow' \in {allow, [allowenroll |-> TRUE, allowstart |-> TRUE,
                            allowsetkey |-> FALSE, allowgetkey |-> FALSE]}
    /\ UNCHANGED <<regsIdx, keyindex, keysize, stat, hw, applied, task, uds, drv>>

\* the PUF SRAM is initialised after ramon was set: ramstat is set
HwSramOn ==
    /\ pwrctrl.ramon /\ ~pwrctrl.ramstat
    /\ pwrctrl' = [pwrctrl EXCEPT !.ramstat = TRUE]
    /\ UNCHANGED <<regsIdx, regsCmd, applied, task, uds, drv>>

WaitCalls ==
    \/ generate_keycode(3, 8, 13)
    \/ get_key(MkKeyCode(3, 1), 4)
    \/ disable_sram
    \/ enable_sram

Driver == Polls \/ sram_wait

NextWait == WaitCalls \/ Driver \/ Puf \/ HwSramOff \/ HwSramOn

SpecWait == Init /\ [][NextWait]_vars

\* the driver keeps running, the PUF answers a command with busy or error,
\* clears busy, and clears ramstat after ramon was cleared
SpecLive ==
    /\ SpecWait
    /\ WF_vars(Driver)
    /\ WF_vars(HwAccept)
    /\ WF_vars(HwDone \/ HwFail)
    /\ WF_vars(HwSramOff)

\* -------------------------------- the blocking registers as they are found
\* the reset value with every encoding of the field f and of bits 31:30
RegWith(f) ==
    {(IdxblkReset \ {2 * f, 2 * f + 1, 30, 31}) \cup fv \cup lv :
        fv \in SUBSET {2 * f, 2 * f + 1}, lv \in SUBSET {30, 31}}

InitIdx ==
    /\ idxblk_l \in RegWith(3)
    /\ idxblk_h \in RegWith(7)
    /\ idxblk_l_dp = BitAnd(idxblk_l, U32(65535, 0))
    /\ idxblk_h_dp = BitAnd(idxblk_h, U32(65535, 0))
    /\ keyindex = 0
    /\ keysize = 1
    /\ allow = [allowenroll |-> FALSE, allowstart |-> FALSE,
                allowsetkey |-> TRUE, allowgetkey |-> TRUE]
    /\ stat = StatIdle
    /\ pwrctrl = [ramon |-> TRUE, ramstat |-> TRUE]
    /\ hw = HwIdle
    /\ pc = "idle"
    /\ call = [op |-> "new", index |-> 0, key_len |-> 0]
    /\ keycode = <<>>
    /\ key = <<>>
    /\ idx = 0
    /\ kc_idx = 0
    /\ key_idx = 0
    /\ ret = "none"
    /\ writes = <<>>
    /\ uds = "off"
    /\ applied = NotApplied
    /\ InitTask

\* a call of one of the reading functions: result r
Read(op, index, r) ==
    /\ pc = "idle"
    /\ Abort(op, index, 0, <<>>, <<>>, r, <<>>)
    /\ UNCHANGED <<regsIdx, regsCmd, regsPwr, applied, task, uds>>

call_is_index_blocked(index) ==
    Read("is_index_blocked", index, is_index_blocked(index))

call_is_index_locked(index) ==
    Read("is_index_locked", index, is_index_locked(index))

call_is_idxblk_l_locked ==
    Read("is_idxblk_l_locked", 0, B(is_idxblk_l_locked))

call_is_idxblk_h_locked ==
    Read("is_idxblk_h_locked", 0, B(is_idxblk_h_locked))

IndexReads ==
    \/ \E i \in 0 .. MaxIndex : call_is_index_blocked(i)
    \/ \E i \in 0 .. MaxIndex : call_is_index_locked(i)
    \/ call_is_idxblk_l_locked
    \/ call_is_idxblk_h_locked

NextIdx == IndexControl \/ IndexReads

SpecIdx == InitIdx /\ [][NextIdx]_vars

\* ------------------------------------------------- the pure functions
\* the arguments the pure functions are applied to
KeyLens == 0 .. MaxKeyLen
\* first words of key codes: every index in the header of a real key code,
\* and words with none, all, or only the neighbours of bits 8-11 set
FirstWords == {KcWord(i, 0) : i \in 0 .. 15} \cup {{}, Bits32, {7, 12}}
PureKeyCodes ==
    {<<>>} \cup {<<w>> : w \in FirstWords}
           \cup {<<w, v>> : w \in FirstWords, v \in {{}, Bits32}}
\* register values: every content of the fields 0, 1, 7 and of bits 16, 17,
\* 30 and 31, the other fields zero
RegValues == SUBSET {0, 1, 2, 3, 14, 15, 16, 17, 30, 31}

\* the applications to be made: a function and its arguments
Applications ==
    {[fn |-> "key_to_keycode_len", arg |-> key_len, index |-> 0,
      res |-> 0, done |-> FALSE] : key_len \in KeyLens}
    \cup {[fn |-> "index_from_keycode", arg |-> kc, index |-> 0,
           res |-> 0, done |-> FALSE] : kc \in PureKeyCodes}
    \cup {[fn |-> "index_bits", arg |-> bits, index |-> index,
           res |-> {}, done |-> FALSE] :
              bits \in RegValues, index \in 0 .. MaxIndex}

Apply(fn, res) ==
    /\ applied.fn = fn /\ ~applied.done
    /\ applied' = [applied EXCEPT !.res = res, !.done = TRUE]
    /\ UNCHANGED <<regsIdx, regsCmd, regsPwr, uds, drv, task>>

apply_key_to_keycode_len ==
    Apply("key_to_keycode_len", key_to_keycode_len(applied.arg))

apply_index_from_keycode ==
    Apply("index_from_keycode", index_from_keycode(applied.arg))

\* enable_index_bits applied to the result of disable_index_bits
apply_index_bits ==
    Apply("index_bits",
          enable_index_bits(disable_index_bits(applied.arg, applied.index),
                            applied.index))

InitPure ==
    /\ idxblk_l = IdxblkReset
    /\ idxblk_h = IdxblkReset
    /\ idxblk_l_dp = BitAnd(idxblk_l, U32(65535, 0))
    /\ idxblk_h_dp = BitAnd(idxblk_h, U32(65535, 0))
    /\ keyindex = 0
    /\ keysize = 1
    /\ allow = [allowenroll |-> FALSE, allowstart |-> FALSE,
                allowsetkey |-> TRUE, allowgetkey |-> TRUE]
    /\ stat = StatIdle
    /\ pwrctrl = [ramon |-> TRUE, ramstat |-> TRUE]
    /\ hw = HwIdle
    /\ pc = "idle"
    /\ call = [op |-> "new", index |-> 0, key_len |-> 0]
    /\ keycode = <<>>
    /\ key = <<>>
    /\ idx = 0
    /\ kc_idx = 0
    /\ key_idx = 0
    /\ ret = "none"
    /\ writes = <<>>
    /\ uds = "off"
    /\ applied \in Applications
    /\ InitTask

NextPure ==
    apply_key_to_keycode_len \/ apply_index_from_keycode \/ apply_index_bits

SpecPure == InitPure /\ [][NextPure]_vars

\* ------------------------------------------------- the DHCP client task
\* milliseconds readoffer and readack wait on an empty queue
WaitMs == 10000

DhcpStates == {"Discover", "ReadOffer", "Request", "ReadAck", "Idle"}

\* the fields of a packet the task compares
Xid == <<61, 61, 61, 61>>
ClientAddr == <<192, 168, 0, 42>>
ServerAddr == <<192, 168, 0, 1>>
Packet(x, y, s) == [xid |-> x, yiaddr |-> y, siaddr |-> s]
\* the packets the network delivers: the awaited one and one wrong in a
\* single field
Packets ==
    {Packet(Xid, ClientAddr, ServerAddr),
     Packet(<<0, 0, 0, 0>>, ClientAddr, ServerAddr),
     Packet(Xid, <<192, 168, 0, 43>>, ServerAddr),
     Packet(Xid, ClientAddr, <<192, 168, 0, 2>>)}

\* the three comparisons of readoffer and readack
Matches(p) ==
    /\ p.xid = <<61, 61, 61, 61>>
    /\ p.yiaddr = <<192, 168, 0, 42>>
    /\ p.siaddr = <<192, 168, 0, 1>>

pufvars == <<regsIdx, regsCmd, regsPwr, drv, uds, applied>>

SetLeds(l0, l1, l2) == leds' = [l \in 0 .. 2 |-> IF l = 0 THEN l0
                                                 ELSE IF l = 1 THEN l1
                                                 ELSE l2]

\* main dispatches Discover: discover up to its send loop
main_discover ==
    /\ dhcp_pc = "main" /\ current_state = "Discover"
    /\ SetLeds(TRUE, FALSE, FALSE)
    /\ dhcp_pc' = "send"
    /\ UNCHANGED <<current_state, rx, tx, notif, net_gen, seen_gen, left,
                   armed, pufvars>>

\* main dispatches Request: request up to its send loop
main_request ==
    /\ dhcp_pc = "main" /\ current_state = "Request"
    /\ SetLeds(FALSE, FALSE, TRUE)
    /\ dhcp_pc' = "send"
    /\ UNCHANGED <<current_state, rx, tx, notif, net_gen, seen_gen, left,
                   armed, pufvars>>

\* net.send_packet in discover and request: DHCP message type 1 or 3
send_packet ==
    /\ dhcp_pc = "send"
    /\ \E err \in {"none", "Other"} :
          IF err = "Other" \/ seen_gen # net_gen THEN
              /\ dhcp_pc' = "panicked"
              /\ UNCHANGED <<current_state, tx>>
          ELSE IF Len(tx) >= MaxTx THEN
              /\ dhcp_pc' = "sendwait"
              /\ UNCHANGED <<current_state, tx>>
          ELSE
              /\ tx' = Append(tx, IF current_state = "Discover" THEN 1 ELSE 3)
              /\ current_state' = IF current_state = "Discover"
                                  THEN "ReadOffer" ELSE "ReadAck"
              /\ dhcp_pc' = "main"
    /\ UNCHANGED <<rx, notif, net_gen, seen_gen, left, armed, leds, pufvars>>

\* sys_recv_closed(SOCKET_MASK) after QueueFull
send_wait ==
    /\ dhcp_pc = "sendwait"
    /\ "socket" \in notif
    /\ notif' = notif \ {"socket"}
    /\ dhcp_pc' = "send"
    /\ UNCHANGED <<current_state, rx, tx, net_gen, seen_gen, left, armed,
                   leds, pufvars>>

\* main dispatches ReadOffer: readoffer up to its loop
main_readoffer ==
    /\ dhcp_pc = "main" /\ current_state = "ReadOffer"
    /\ SetLeds(FALSE, TRUE, FALSE)
    /\ dhcp_pc' = "recv"
    /\ UNCHANGED <<current_state, rx, tx, notif, net_gen, seen_gen, left,
                   armed, pufvars>>

\* main dispatches ReadAck: readack up to its loop
main_readack ==
    /\ dhcp_pc = "main" /\ current_state = "ReadAck"
    /\ SetLeds(TRUE, TRUE, TRUE)
    /\ dhcp_pc' = "recv"
    /\ UNCHANGED <<current_state, rx, tx, notif, net_gen, seen_gen, left,
                   armed, pufvars>>

\* one turn of the loop of readoffer / readack: net.recv_packet and its
\* match arms, up to the next recv_packet, the wait or the return
recv_packet ==
    /\ dhcp_pc = "recv"
    /\ \E err \in {"none", "Other"} :
          IF err = "Other" THEN
              /\ dhcp_pc' = "panicked"
              /\ UNCHANGED <<current_state, rx, seen_gen, left, armed>>
          ELSE IF seen_gen # net_gen THEN
              \* ServerRestarted: retry
              /\ seen_gen' = net_gen
              /\ UNCHANGED <<current_state, dhcp_pc, rx, left, armed>>
          ELSE IF rx # <<>> THEN
              /\ rx' = Tail(rx)
              /\ IF Matches(Head(rx))
                 THEN /\ current_state' = IF current_state = "ReadOffer"
                                          THEN "Request" ELSE "Idle"
                      /\ dhcp_pc' = "main"
                 ELSE UNCHANGED <<current_state, dhcp_pc>>
              /\ UNCHANGED <<seen_gen, left, armed>>
          ELSE
              \* QueueEmpty: deadline = now + 10 * 1000, sys_set_timer
              /\ left' = WaitMs
              /\ armed' = TRUE
              /\ dhcp_pc' = "wait"
              /\ UNCHANGED <<current_state, rx, seen_gen>>
    /\ UNCHANGED <<tx, notif, net_gen, leds, pufvars>>

\* sys_recv_closed(SOCKET_MASK | TIMER_MASK) returns, then
\* `if sys_get_timer().now >= deadline`
recv_wait ==
    /\ dhcp_pc = "wait"
    /\ notif # {}
    /\ notif' = {}
    /\ IF left = 0
       THEN current_state' = "Discover" /\ dhcp_pc' = "main"
       ELSE dhcp_pc' = "recv" /\ UNCHANGED current_state
    /\ UNCHANGED <<rx, tx, net_gen, seen_gen, left, armed, leds, pufvars>>

\* main dispatches Idle: idle up to its sleep
main_idle ==
    /\ dhcp_pc = "main" /\ current_state = "Idle"
    /\ SetLeds(FALSE, FALSE, FALSE)
    /\ dhcp_pc' = "sleep"
    /\ UNCHANGED <<current_state, rx, tx, notif, net_gen, seen_gen, left,
                   armed, pufvars>>

\* hl::sleep_for(12 hours) is over
idle_wake ==
    /\ dhcp_pc = "sleep"
    /\ current_state' = "Discover"
    /\ dhcp_pc' = "main"
    /\ UNCHANGED <<rx, tx, notif, net_gen, seen_gen, left, armed, leds,
                   pufvars>>

\* the net task queues a received packet for the socket and notifies
NetDeliver ==
    /\ Len(rx) < MaxRx
    /\ \E p \in Packets : rx' = Append(rx, p)
    /\ notif' = notif \cup {"socket"}
    /\ UNCHANGED <<current_state, dhcp_pc, tx, net_gen, seen_gen, left, armed,
                   leds, pufvars>>

\* the net task transmits a queued packet and notifies of the free space
NetTransmit ==
    /\ tx # <<>>
    /\ tx' = Tail(tx)
    /\ notif' = notif \cup {"socket"}
    /\ UNCHANGED <<current_state, dhcp_pc, rx, net_gen, seen_gen, left, armed,
                   leds, pufvars>>

\* the net task restarts and loses its queues
NetRestart ==
    /\ net_gen < MaxRestarts
    /\ net_gen' = net_gen + 1
    /\ rx' = <<>>
    /\ tx' = <<>>
    /\ UNCHANGED <<current_state, dhcp_pc, notif, seen_gen, left, armed, leds,
                   pufvars>>

\* TickMs milliseconds pass; the kernel posts the timer notification at the
\* deadline
Tick ==
    /\ left > 0
    /\ left' = IF left > TickMs THEN left - TickMs ELSE 0
    /\ IF armed /\ left' = 0
       THEN notif' = notif \cup {"timer"} /\ armed' = FALSE
       ELSE UNCHANGED <<notif, armed>>
    /\ UNCHANGED <<current_state, dhcp_pc, rx, tx, net_gen, seen_gen, leds,
                   pufvars>>

DhcpTask ==
    \/ main_discover \/ main_readoffer \/ main_request \/ main_readack
    \/ main_idle \/ send_packet \/ send_wait \/ recv_packet \/ recv_wait
    \/ idle_wake

NextDhcp == DhcpTask \/ NetDeliver \/ NetTransmit \/ NetRestart \/ Tick

SpecDhcp == Init /\ [][NextDhcp]_vars

\* the task runs, time passes and the net task transmits what is queued
SpecDhcpLive ==
    SpecDhcp /\ WF_vars(DhcpTask) /\ WF_vars(Tick) /\ WF_vars(NetTransmit)

\* ============================================================== claims
Low16(bits) == BitAnd(bits, U32(65535, 0))
\* the enable/disable fields of a blocking register (bits 0..15)
Fields(bits) == Low16(bits)
\* the GETKEY / GENERATEKEY command bit was written by the current call
Issued(cmd) == \E k \in 1 .. Len(writes) : writes[k] = W("ctrl", cmd)
WroteReg(reg) == \E k \in 1 .. Len(writes) : writes[k].reg = reg
\* the step is a call of block_index(i) or unblock_index(i)
IsUpdate(i) ==
    /\ pc = "idle"
    /\ call'.op \in {"block_index", "unblock_index"}
    /\ call'.index = i
    /\ (block_index(i) \/ unblock_index(i))
\* the step is a call of generate_keycode
IsGenerate ==
    /\ pc = "idle"
    /\ call'.op = "generate_keycode"
    /\ \E a \in GenArgs, n \in 0 .. 69 :
          a[1] = call'.index /\ a[2] = call'.key_len /\ n = Len(keycode')
          /\ generate_keycode(a[1], a[2], n)
\* number of code words the PUF emits in the running GENERATEKEY operation
HwTotal == hw.emitted + hw.out_left + (IF stat.codeoutavail THEN 1 ELSE 0)

\* C1: a get_key call (get-key allowed) whose key code embeds an index that
\* is_index_blocked reports blocked returns false, writes neither the GETKEY
\* bit nor CODEINPUT, leaves the PUF untouched and leaves the key buffer
\* unchanged.
C1_BlockedGetKeyRefused ==
    [][\A kc \in KeyCodes, n \in KeyBufLens :
          (/\ pc = "idle" /\ call'.op = "get_key" /\ allow.allowgetkey
           /\ get_key(kc, n)
           /\ index_from_keycode(kc) \in 1 .. 15
           /\ is_index_blocked(index_from_keycode(kc)) = "true")
          => /\ pc' = "idle"
             /\ ret' = "false"
             /\ writes' = <<>>
             /\ key' = Zeros(n, 0)
             /\ UNCHANGED <<regsIdx, regsCmd, regsPwr>>]_vars

C1_Witness ==
    /\ call.op = "get_key" /\ pc = "idle"
    /\ allow.allowgetkey
    /\ call.index = 15 /\ Len(keycode) = 2
    /\ is_index_blocked(15) = "true"
    /\ ret = "false" /\ writes = <<>>

\* C2: once block_index(15) has returned true and lock_indices_high() was
\* called afterwards, is_index_blocked(15) is true in every later state and
\* no get_key call for a key code of index 15 has written the GETKEY bit.
C2_Index15StaysBlocked ==
    uds = "sealed"
    => /\ is_index_blocked(15) = "true"
       /\ ~(call.op = "get_key" /\ call.index = 15 /\ Issued("getkey"))

\* C3: on a locked register a block_index / unblock_index call for an index
\* that register governs leaves the enable/disable fields unchanged and does
\* not return true when the value it wrote is not the value the register
\* holds afterwards.
C3_LockedWriteHonest ==
    [][\A i \in BlockIndices :
          /\ (IsUpdate(i) /\ i \in 1 .. 7 /\ is_idxblk_l_locked)
             => /\ Fields(idxblk_l') = Fields(idxblk_l)
                /\ (ret' = "true" => idxblk_l' = writes'[1].val)
          /\ (IsUpdate(i) /\ i \in 8 .. 15 /\ is_idxblk_h_locked)
             => /\ Fields(idxblk_h') = Fields(idxblk_h)
                /\ (ret' = "true" => idxblk_h' = writes'[1].val)]_vars

\* C4: a locked register stays locked over every step of the layer, and no
\* operation writes to a locked register a value whose bits 31:30 differ
\* from the "locked" encoding.
C4_LockIrreversible ==
    [][/\ is_idxblk_l_locked => is_locked(idxblk_l')
       /\ is_idxblk_h_locked => is_locked(idxblk_h')
       /\ (pc = "idle" /\ (IndexControl \/ Calls))
          => \A k \in 1 .. Len(writes') :
                /\ (writes'[k].reg = "idxblk_l" /\ is_idxblk_l_locked)
                   => is_locked(writes'[k].val)
                /\ (writes'[k].reg = "idxblk_h" /\ is_idxblk_h_locked)
                   => is_locked(writes'[k].val)]_vars

C4_Witness ==
    /\ is_idxblk_h_locked
    /\ call.op = "unblock_index" /\ call.index = 15 /\ ret = "true"
    /\ WroteReg("idxblk_h")

\* C5: after a block_index / unblock_index call that returns true the DP
\* register of the register it wrote equals the low 16 bits of that
\* register, and a step of the layer never breaks that equality.
C5_ShadowConsistent ==
    [][/\ \A i \in BlockIndices :
            /\ (IsUpdate(i) /\ i \in 1 .. 7 /\ ret' = "true")
               => idxblk_l_dp' = Low16(idxblk_l')
            /\ (IsUpdate(i) /\ i \in 8 .. 15 /\ ret' = "true")
               => idxblk_h_dp' = Low16(idxblk_h')
       /\ (idxblk_l_dp = Low16(idxblk_l)) => (idxblk_l_dp' = Low16(idxblk_l'))
       /\ (idxblk_h_dp = Low16(idxblk_h)) => (idxblk_h_dp' = Low16(idxblk_h'))
      ]_vars

\* C6: block_index(i) and unblock_index(i) change, and write, only IDXBLK_L
\* and IDXBLK_L_DP for i in 1..7 and only IDXBLK_H and IDXBLK_H_DP for i in
\* 8..15; for i = 0 and i >= 16 they return false and leave the four
\* registers unchanged.
C6_BlockFrame ==
    [][\A i \in BlockIndices :
          IsUpdate(i)
          => /\ UNCHANGED <<regsCmd, regsPwr>>
             /\ i \in 1 .. 7
                => /\ UNCHANGED <<idxblk_h, idxblk_h_dp>>
                   /\ \A k \in 1 .. Len(writes') :
                         writes'[k].reg \in {"idxblk_l", "idxblk_l_dp"}
             /\ i \in 8 .. 15
                => /\ UNCHANGED <<idxblk_l, idxblk_l_dp>>
                   /\ \A k \in 1 .. Len(writes') :
                         writes'[k].reg \in {"idxblk_h", "idxblk_h_dp"}
             /\ (i = 0 \/ i >= 16)
                => /\ ret' = "false"
                   /\ writes' = <<>>
                   /\ UNCHANGED regsIdx]_vars

C6_Witness ==
    /\ call.op = "block_index" /\ call.index = 15 /\ ret = "true"
    /\ is_index_blocked(15) = "true"
    /\ idxblk_h_dp = Low16(idxblk_h)
    /\ writes = <<W("idxblk_h", idxblk_h), W("idxblk_h_dp", idxblk_h_dp)>>

\* C7: with the get-key-allowed bit clear get_key returns false at once: it
\* writes no register, changes no register and leaves the key buffer
\* unchanged, for every key code (empty, index 0, blocked or not).
C7_GetKeyNotAllowed ==
    [][\A kc \in KeyCodes, n \in KeyBufLens :
          (/\ pc = "idle" /\ call'.op = "get_key" /\ ~allow.allowgetkey
           /\ get_key(kc, n))
          => /\ pc' = "idle"
             /\ ret' = "false"
             /\ writes' = <<>>
             /\ key' = Zeros(n, 0)
             /\ UNCHANGED <<regsIdx, regsCmd, regsPwr>>]_vars

C7_Witness ==
    /\ call.op = "get_key" /\ pc = "idle"
    /\ ~allow.allowgetkey
    /\ keycode = MkKeyCode(0, 1)
    /\ ret = "false" /\ writes = <<>>

C9_GenValidatesArgs ==
    (/\ call.op = "generate_keycode"
     /\ (call.index > 15 \/ key_size_encoding(call.key_len) >= 32))
    => /\ ~Issued("generatekey")
       /\ pc \in {"idle", "panicked"}
       /\ ret # "true"

\* C10: a generate_keycode call whose buffer holds exactly
\* key_to_keycode_len(key_len) / 4 words, with a PUF that emits exactly that
\* many code words, does not panic with PufKCTooLong.
C10_NoSpuriousOverflow ==
    (/\ call.op = "generate_keycode"
     /\ call.key_len % 8 = 0
     /\ Len(keycode) = key_to_keycode_len(call.key_len) \div 4
     /\ hw.phase = "run" /\ hw.cmd = "generatekey"
     /\ HwTotal = Len(keycode))
    => ret # "panic:PufKCTooLong"


\* C11: in a generate_keycode call that issued its command, the code words
\* read so far are exactly the words the PUF emitted, in the order it
\* emitted them: entry j of the buffer holds the j-th emitted word for every
\* j below idx, idx counts the emitted words while the operation runs, and
\* the entries from idx on still hold what the caller passed in.
C11_KeycodeInOrder ==
    (call.op = "generate_keycode" /\ Issued("generatekey")) =>
        /\ \A j \in 1 .. Len(keycode) :
              keycode[j] = IF j <= idx THEN KcWord(keyindex, j - 1) ELSE {}
        /\ (hw.phase = "run" => idx = hw.emitted)
        /\ idx <= Len(keycode)
\* a call that returned after 5 of the words of a 13-word buffer were read
C11_Witness ==
    /\ call.op = "generate_keycode" /\ pc = "idle" /\ ret = "false"
    /\ Issued("generatekey")
    /\ idx = 5 /\ Len(keycode) = 13
    /\ keycode[5] = KcWord(3, 4) /\ keycode[6] = {}

\* C12: when generate_keycode or get_key issued its command and returned,
\* the value returned is the success bit of the status register: true only
\* with success set, false when busy has ended with success clear.
C12_ReturnIsSuccessBit ==
    (/\ pc = "idle" /\ call.op \in {"generate_keycode", "get_key"}
     /\ (Issued("generatekey") \/ Issued("getkey"))) =>
        /\ ret = B(stat.success)
        /\ (~stat.success => ret = "false")
\* get_key returned false after busy ended with success clear
C12_Witness ==
    /\ pc = "idle" /\ call.op = "get_key" /\ Issued("getkey")
    /\ ~stat.busy /\ ~stat.success /\ ret = "false"
    /\ kc_idx > 0


\* the values written to CODEINPUT by the current call, in order
CodeInputs == SelectSeq(writes, LAMBDA w : w.reg = "codeinput")
\* byte k (0 is the least significant) of the 32-bit word w
NativeByte(w, k) == (ToNat(w) \div (256 ^ k)) % 256

\* C13: in get_key the k-th write to CODEINPUT is the k-th word of the key
\* code, one write for each request of the PUF that was serviced, whatever
\* the order in which the PUF raises code-input requests and key-output
\* words; every loop iteration polls the request bit and then the key-output
\* bit, and services each of them when it is set.
C13_CodeFedInOrder ==
    [][/\ (call'.op = "get_key" =>
             /\ Len(CodeInputs') = kc_idx'
             /\ kc_idx' <= Len(keycode')
             /\ \A k \in 1 .. kc_idx' :
                   CodeInputs'[k] = W("codeinput", keycode'[k])
             /\ (hw'.phase = "run" => kc_idx' + hw'.in_left = HwCodeWords'))
       /\ (pc = "gk_req" /\ pc' # pc =>
             /\ pc' = "gk_avail"
             /\ (stat.codeinreq <=> kc_idx' = kc_idx + 1))
       /\ (pc = "gk_avail" /\ pc' # pc =>
             /\ pc' = "gk_busy"
             /\ (stat.keyoutavail <=> key_idx' = key_idx + 4))]_vars
\* get_key returned after all 13 words of the key code were written
C13_Witness ==
    /\ pc = "idle" /\ call.op = "get_key" /\ ret = "true"
    /\ kc_idx = 13 /\ Len(CodeInputs) = 13
    /\ CodeInputs[13] = W("codeinput", KcWord(3, 12))

\* C14: in get_key the key-output words read so far are in the key buffer
\* as their 4 bytes, least significant byte first, in the order the PUF
\* produced them: with m words read, byte 4j+k of the buffer is byte k of
\* word j for every j < m, and the bytes from 4m on still hold what the
\* caller passed in.
C14_KeyBytesNative ==
    call.op = "get_key" =>
        /\ key_idx % 4 = 0 /\ key_idx <= Len(key)
        /\ (hw.phase = "run" => key_idx = 4 * hw.keyout)
        /\ \A j \in 0 .. Len(key) - 1 :
              key[j + 1] = IF j < key_idx
                           THEN NativeByte(KeyWord(j \div 4), j % 4)
                           ELSE 0
\* three key words were read into a 32-byte buffer
C14_Witness ==
    /\ call.op = "get_key" /\ pc = "gk_busy" /\ key_idx = 12
    /\ Len(key) = 32
    /\ key[9] = 6 /\ key[10] = 3 /\ key[11] = 2 /\ key[12] = 1
    /\ key[13] = 0

\* C15: in the end-to-end run neither call aborts; when generate_keycode
\* returns with the success bit set it returns true with exactly 13 words
\* filled, and when get_key returns with the success bit set it returns
\* true having written the 13 code words back and stored exactly 32 key
\* bytes.
C15_EndToEnd ==
    /\ pc # "panicked"
    /\ (pc = "idle" /\ call.op = "generate_keycode" /\ stat.success) =>
          (ret = "true" /\ idx = 13 /\ keycode = MkKeyCode(3, 13))
    /\ (pc = "idle" /\ call.op = "get_key" /\ stat.success) =>
          (ret = "true" /\ kc_idx = 13 /\ Len(CodeInputs) = 13
           /\ key_idx = 32)


\* the least multiple of 32 that is not below n
RoundUp32(n) == CHOOSE m \in n .. n + 31 : m % 32 = 0
\* the number held in bits 8-11 of the word w
Bits8to11(w) ==
    (IF 8 \in w THEN 1 ELSE 0) + (IF 9 \in w THEN 2 ELSE 0)
    + (IF 10 \in w THEN 4 ELSE 0) + (IF 11 \in w THEN 8 ELSE 0)
\* the two bit positions of the field of index i in a blocking register
FieldOf(i) == {2 * (i % 8), 2 * (i % 8) + 1}

\* C16: for a key length L that is a multiple of 8, key_to_keycode_len(L) is
\* 20 plus L rounded up to a multiple of 32; it is not below the value for
\* any smaller length, it is the same for all lengths of the same 32-byte
\* bucket, and 8 and 32 give 52, 40 and 64 give 84, 72 and 96 give 116.
C16_KeycodeLen ==
    (applied.done /\ applied.fn = "key_to_keycode_len" /\ applied.arg % 8 = 0) =>
        /\ applied.res = 20 + RoundUp32(applied.arg)
        /\ \A l \in 0 .. applied.arg :
              l % 8 = 0 => key_to_keycode_len(l) <= applied.res
        /\ \A l \in KeyLens :
              (l % 8 = 0 /\ RoundUp32(l) = RoundUp32(applied.arg))
                  => key_to_keycode_len(l) = applied.res
        /\ (applied.arg \in {8, 32} => applied.res = 52)
        /\ (applied.arg \in {40, 64} => applied.res = 84)
        /\ (applied.arg \in {72, 96} => applied.res = 116)
\* the upper end of the third bucket
C16_Witness ==
    /\ applied.done /\ applied.fn = "key_to_keycode_len" /\ applied.arg = 96
    /\ applied.res = 116

\* C17: key_to_keycode_len fails for every key length that is not a
\* multiple of 8, and a generate_keycode call with such a length, or with a
\* buffer of fewer words than a quarter of the key code length, panics
\* having written no register: KEYINDEX, KEYSIZE, CTRL and every other
\* register are as before the call.
C17_GenFailsBeforeWrites ==
    [][(/\ IsGenerate
        /\ \/ call'.key_len % 8 # 0
           \/ Len(keycode') < (20 + RoundUp32(call'.key_len)) \div 4)
       => /\ pc' = "panicked"
          /\ ret' \in {"panic:PufCmdDisallowed", "panic:PufKeyCode",
                       "panic:key length not a multiple of 8"}
          /\ writes' = <<>>
          /\ UNCHANGED <<regsIdx, regsCmd, regsPwr>>
          /\ \A l \in KeyLens :
                l % 8 # 0 => key_to_keycode_len(l) = PANIC]_vars
\* generate_keycode(3, 12, ..) with generation allowed
C17_Witness ==
    /\ call.op = "generate_keycode" /\ call.key_len = 12
    /\ allow.allowsetkey
    /\ pc = "panicked" /\ ret = "panic:key length not a multiple of 8"
    /\ writes = <<>> /\ hw = HwIdle /\ keyindex = 0

\* C18: index_from_keycode of a non-empty key code is the number in bits
\* 8-11 of its first word, a value in 0..15 that no other word of the key
\* code changes; the empty key code makes it fail.
C18_IndexFromKeycode ==
    applied.done /\ applied.fn = "index_from_keycode" =>
        IF Len(applied.arg) = 0 THEN applied.res = PANIC
        ELSE /\ applied.res = Bits8to11(applied.arg[1])
             /\ applied.res \in 0 .. 15
             /\ \A kc \in PureKeyCodes :
                   (Len(kc) > 0 /\ kc[1] = applied.arg[1])
                       => index_from_keycode(kc) = applied.res
\* a two-word key code for index 15 whose second word has every bit set
C18_Witness ==
    /\ applied.done /\ applied.fn = "index_from_keycode"
    /\ applied.arg = <<KcWord(15, 0), Bits32>>
    /\ applied.res = 15

\* C19 as stated: enable_index_bits(disable_index_bits(b, i), i) has the
\* field of i mod 8 that b has, and the bits of b everywhere else.
C19_RoundTripRestores ==
    applied.done /\ applied.fn = "index_bits" =>
        /\ applied.res \cap FieldOf(applied.index)
              = applied.arg \cap FieldOf(applied.index)
        /\ applied.res \ FieldOf(applied.index)
              = applied.arg \ FieldOf(applied.index)
\* C19 amended: enable_index_bits(disable_index_bits(b, i), i) has 0b10 in
\* the field of i mod 8 whatever b held there, and the bits of b everywhere
\* else (bits 16-31 included); it is b when b had 0b10 in that field.
C19_RoundTripEnables ==
    applied.done /\ applied.fn = "index_bits" =>
        /\ applied.res \cap FieldOf(applied.index)
              = {2 * (applied.index % 8) + 1}
        /\ applied.res \ FieldOf(applied.index)
              = applied.arg \ FieldOf(applied.index)
        /\ (applied.arg \cap FieldOf(applied.index)
               = {2 * (applied.index % 8) + 1} => applied.res = applied.arg)
\* index 15 (field 7) of a locked register with field 7 disabled
C19_Witness ==
    /\ applied.done /\ applied.fn = "index_bits" /\ applied.index = 15
    /\ applied.arg = {0, 3, 14, 17, 30}
    /\ applied.res = {0, 3, 15, 17, 30}


\* C20: lock_indices_low leaves the low blocking register locked (bits 31:30
\* are 0b01) with its bits 0-29 as before, and changes neither the high
\* register nor the two shadow registers, so is_idxblk_l_locked is true
\* and is_index_blocked(i) is as before for every i in 1..15; the same holds
\* for lock_indices_high and the high register.
C20_LockFrame ==
    [][/\ (pc = "idle" /\ call'.op = "lock_indices_low" /\ lock_indices_low)
          => /\ 30 \in idxblk_l' /\ 31 \notin idxblk_l'
             /\ idxblk_l' \ {30, 31} = idxblk_l \ {30, 31}
             /\ UNCHANGED <<idxblk_h, idxblk_l_dp, idxblk_h_dp>>
             /\ is_idxblk_l_locked'
             /\ \A i \in 1 .. 15 : is_index_blocked(i)' = is_index_blocked(i)
       /\ (pc = "idle" /\ call'.op = "lock_indices_high" /\ lock_indices_high)
          => /\ 30 \in idxblk_h' /\ 31 \notin idxblk_h'
             /\ idxblk_h' \ {30, 31} = idxblk_h \ {30, 31}
             /\ UNCHANGED <<idxblk_l, idxblk_l_dp, idxblk_h_dp>>
             /\ is_idxblk_h_locked'
             /\ \A i \in 1 .. 15 : is_index_blocked(i)' = is_index_blocked(i)
      ]_vars
\* the low register was locked after index 3 had been blocked
C20_Witness ==
    /\ call.op = "lock_indices_low" /\ pc = "idle"
    /\ is_idxblk_l_locked
    /\ is_index_blocked(3) = "true"
    /\ ~is_idxblk_h_locked


\* the 2-bit field of index i (1..15) in its blocking register
FieldBits(l, h, i) ==
    IF i \in 1 .. 7 THEN {k - 2 * i : k \in l \cap {2 * i, 2 * i + 1}}
    ELSE {k - 2 * (i - 8) : k \in h \cap {2 * (i - 8), 2 * (i - 8) + 1}}
\* the blocking register of index i (1..15)
RegOf(l, h, i) == IF i \in 1 .. 7 THEN l ELSE h
\* bits 31:30 of the register are 0b01
LockedBits(reg) == 30 \in reg /\ 31 \notin reg
\* every field of the indices 1..15 holds 0b01 or 0b10
ValidFields(l, h) ==
    \A i \in 1 .. 15 : FieldBits(l, h, i) \in {{0}, {1}}

\* C21: when the register of index i is not locked, a block_index(i) that
\* returned true leaves is_index_blocked(i) true and an unblock_index(i)
\* that returned true leaves it false, and is_index_blocked(j) is as before
\* for every other j in 1..15; is_index_blocked panics for index 0 and for
\* every index from 16 on, and only for those.
C21_BlockThenBlocked ==
    [][/\ \A i \in 1 .. 15 :
            (/\ pc = "idle" /\ call'.index = i /\ ret' = "true"
             /\ call'.op \in {"block_index", "unblock_index"}
             /\ ~LockedBits(RegOf(idxblk_l, idxblk_h, i))
             /\ (block_index(i) \/ unblock_index(i)))
            => /\ is_index_blocked(i)' = B(call'.op = "block_index")
               /\ \A j \in (1 .. 15) \ {i} :
                     is_index_blocked(j)' = is_index_blocked(j)
       /\ (pc = "idle" /\ call'.op = "is_index_blocked")
            => (ret' = "panic:invalid index" <=> call'.index \notin 1 .. 15)
      ]_vars
\* index 15 was unblocked on a high register that is not locked
C21_Witness ==
    /\ call.op = "unblock_index" /\ call.index = 15 /\ ret = "true"
    /\ ~LockedBits(idxblk_h)
    /\ is_index_blocked(15) = "false"
    /\ is_index_blocked(3) = "true"

\* C22 as stated: after block_index(i) the field of index i is 0b01 and
\* after unblock_index(i) it is 0b10, whatever it held before and whatever
\* the state of the register.
C22_FieldAfterCall ==
    [][\A i \in 1 .. 15 :
          (/\ pc = "idle" /\ call'.index = i
           /\ call'.op \in {"block_index", "unblock_index"}
           /\ (block_index(i) \/ unblock_index(i)))
          => FieldBits(idxblk_l', idxblk_h', i)
                = (IF call'.op = "block_index" THEN {0} ELSE {1})]_vars
\* C22 amended: on a register that is not locked the field of index i is
\* 0b01 after block_index(i) and 0b10 after unblock_index(i), whatever it
\* held before; on a locked register the field keeps its value; and no
\* block, unblock or lock call takes the fields of the indices 1..15 out
\* of {0b01, 0b10}.
C22_ValidEncodings ==
    [][/\ \A i \in 1 .. 15 :
            (/\ pc = "idle" /\ call'.index = i
             /\ call'.op \in {"block_index", "unblock_index"}
             /\ (block_index(i) \/ unblock_index(i)))
            => FieldBits(idxblk_l', idxblk_h', i)
                  = (IF LockedBits(RegOf(idxblk_l, idxblk_h, i))
                     THEN FieldBits(idxblk_l, idxblk_h, i)
                     ELSE IF call'.op = "block_index" THEN {0} ELSE {1})
       /\ (ValidFields(idxblk_l, idxblk_h)
               => ValidFields(idxblk_l', idxblk_h'))]_vars
\* index 3 was blocked on a low register whose bits 31:30 are reserved
C22_Witness ==
    /\ call.op = "block_index" /\ call.index = 3 /\ ret = "true"
    /\ 30 \in idxblk_l /\ 31 \in idxblk_l
    /\ FieldBits(idxblk_l, idxblk_h, 3) = {0}
    /\ ValidFields(idxblk_l, idxblk_h)

\* C23: is_idxblk_l_locked and is_idxblk_h_locked return true exactly when
\* bits 31:30 of their register are 0b01; is_index_locked(i) returns that
\* of the low register for i in 1..7 and of the high register for i in
\* 8..15, and panics for every other index.
C23_LockedOnlyFor01 ==
    /\ call.op = "is_idxblk_l_locked" => ret = B(LockedBits(idxblk_l))
    /\ call.op = "is_idxblk_h_locked" => ret = B(LockedBits(idxblk_h))
    /\ call.op = "is_index_locked" =>
          ret = (IF call.index \in 1 .. 7 THEN B(LockedBits(idxblk_l))
                 ELSE IF call.index \in 8 .. 15 THEN B(LockedBits(idxblk_h))
                 ELSE "panic:invalid index")
\* is_index_locked(9) with the high register reserved and the low locked
C23_Witness ==
    /\ call.op = "is_index_locked" /\ call.index = 9 /\ ret = "false"
    /\ 30 \in idxblk_h /\ 31 \in idxblk_h
    /\ LockedBits(idxblk_l)

\* C24: is_index_blocked(i) returns true only when the field of index i
\* holds 0b01; for the reserved encodings 0b00 and 0b11 (and for 0b10) it
\* returns false.
C24_ReservedNotBlocked ==
    (call.op = "is_index_blocked" /\ call.index \in 1 .. 15) =>
        (ret = "true" <=> FieldBits(idxblk_l, idxblk_h, call.index) = {0})


\* C25: a get_key whose GETKEY command the PUF rejected (error set, busy
\* never set) does not panic, writes no code word, reads no key word, leaves
\* the key buffer as it was passed in and returns the success bit; and
\* the streaming loop of get_key goes to the return as soon as it reads the
\* error bit set.
C25_RejectTolerated ==
    [][/\ (/\ call'.op = "get_key" /\ hw'.cmd = "getkey"
           /\ hw'.phase = "rejected"
           /\ \E k \in 1 .. Len(writes') : writes'[k] = W("ctrl", "getkey"))
          => /\ pc' # "panicked"
             /\ kc_idx' = 0 /\ key_idx' = 0
             /\ Len(writes') = 1
             /\ key' = Zeros(Len(key'), 0)
             /\ (pc' = "idle" => ret' = B(stat'.success))
             /\ stat'.error /\ ~stat'.busy
       /\ (pc = "gk_error" /\ pc' # pc /\ stat.error) => pc' = "gk_ret"
       /\ (pc = "gk_ret" /\ pc' # pc) => ret' = B(stat.success)]_vars
\* get_key returned false after its command was rejected
C25_Witness ==
    /\ call.op = "get_key" /\ pc = "idle" /\ Issued("getkey")
    /\ hw.phase = "rejected" /\ hw.cmd = "getkey"
    /\ stat.error /\ ~stat.busy
    /\ ret = "false"


\* C26: after disable_sram the power-on bit is clear, and when the call has
\* returned the SRAM-ready bit is clear as well; enable_sram sets the
\* power-on bit and has returned at once, whatever the SRAM-ready bit holds.
C26_PowerSequencing ==
    /\ call.op = "disable_sram" =>
          /\ ~pwrctrl.ramon
          /\ pc \in {"sram_wait", "idle"}
          /\ (pc = "idle" => ~pwrctrl.ramstat /\ ret = "unit")
          /\ (pwrctrl.ramstat => pc = "sram_wait")
    /\ call.op = "enable_sram" =>
          /\ pwrctrl.ramon
          /\ pc = "idle" /\ ret = "unit"
\* enable_sram has returned and the SRAM is not ready yet
C26_Witness ==
    /\ call.op = "enable_sram" /\ pc = "idle"
    /\ pwrctrl.ramon /\ ~pwrctrl.ramstat

\* C27: every call of generate_keycode, get_key and disable_sram that is
\* under way eventually returns or panics, given that the PUF answers a
\* command with busy or error, clears busy and clears SRAM-ready after
\* power-off; and the calls leave their loops on those events only: the
\* accept loop with busy or error set, the loop of generate_keycode with
\* busy clear, the loop of get_key with busy clear or error set, and the
\* loop of disable_sram with SRAM-ready clear.
C27_CallsTerminate ==
    /\ (pc \notin {"idle", "panicked"}) ~> (pc \in {"idle", "panicked"})
    /\ [][/\ (pc \in {"acc_busy", "acc_error"} /\ pc' = "acc_ret")
              => (stat.busy \/ stat.error)
          /\ (pc = "gen_busy" /\ pc' = "gen_ret") => ~stat.busy
          /\ (pc \in {"gk_busy", "gk_error"} /\ pc' = "gk_ret")
              => (~stat.busy \/ stat.error)
          /\ (pc = "sram_wait" /\ pc' = "idle") => ~pwrctrl.ramstat]_vars
\* disable_sram returned after get-key had been served
C27_Witness ==
    /\ call.op = "disable_sram" /\ pc = "idle" /\ ret = "unit"
    /\ hw.cmd = "getkey" /\ stat.success


\* C28: in get_key kc_idx never exceeds keycode.len() and key_idx never
\* exceeds key.len(); a code-input request with no code word left, and a
\* key-output word that does not fit in what is left of the key buffer,
\* make the call panic at that access; a call that returns true has stored
\* whole words only.
C28_GetKeyInBounds ==
    [][/\ call'.op = "get_key" =>
             /\ kc_idx' <= Len(keycode') /\ key_idx' <= Len(key')
             /\ (ret' = "true" => pc' = "idle" /\ key_idx' % 4 = 0)
       /\ (/\ pc = "gk_req" /\ pc' # pc
           /\ stat.codeinreq /\ kc_idx >= Len(keycode))
          => /\ pc' = "panicked" /\ ret' = "panic:index out of bounds"
             /\ writes' = writes
       /\ (/\ pc = "gk_avail" /\ pc' # pc
           /\ stat.keyoutavail /\ key_idx + 4 > Len(key))
          => pc' = "panicked" /\ ret' = "panic:index out of bounds"
      ]_vars
\* a key word arrived for a 2-byte key buffer
C28_Witness ==
    /\ call.op = "get_key" /\ pc = "panicked"
    /\ ret = "panic:index out of bounds"
    /\ Len(key) = 2 /\ key_idx = 2 /\ key[1] # 0

\* C29: a get_key with a key code whose index is 0 never writes the GETKEY
\* bit, never writes a byte of the key buffer and never returns true.
C29_IndexZeroNoOutput ==
    (/\ call.op = "get_key" /\ Len(keycode) > 0
     /\ Bits8to11(keycode[1]) = 0)
    => /\ ~Issued("getkey")
       /\ hw.cmd # "getkey" \/ writes = <<>>
       /\ key = Zeros(Len(key), 0) /\ key_idx = 0
       /\ ret # "true"
\* get_key with an index-0 key code, get-key allowed, IDXBLK_L locked
C29_Witness ==
    /\ call.op = "get_key" /\ keycode = MkKeyCode(0, 1)
    /\ allow.allowgetkey
    /\ is_idxblk_l_locked
    /\ pc = "panicked" /\ ret = "panic:invalid index"


\* the order of the states of the DHCP task, and what a step to Request or
\* to Idle has received
DhcpStateSequence ==
    [][current_state' # current_state =>
          /\ <<current_state, current_state'>> \in
                {<<"Discover", "ReadOffer">>, <<"ReadOffer", "Request">>,
                 <<"Request", "ReadAck">>, <<"ReadAck", "Idle">>,
                 <<"Idle", "Discover">>, <<"ReadOffer", "Discover">>,
                 <<"ReadAck", "Discover">>}
          /\ (current_state' \in {"Request", "Idle"}
                 => rx # <<>> /\ Matches(Head(rx)))
      ]_vars

\* C30: a DHCP task in ReadOffer or ReadAck that receives no matching packet
\* (it does not go on to Request or Idle, and does not panic) eventually
\* returns to Discover, also when non-matching packets keep arriving.
C30_ReturnsToDiscover ==
    (current_state \in {"ReadOffer", "ReadAck"})
        ~> (current_state \notin {"ReadOffer", "ReadAck"} \/ dhcp_pc = "panicked")
\* the task read a non-matching packet and waits again with a new deadline
C30_Witness ==
    /\ current_state = "ReadOffer" /\ dhcp_pc = "wait"
    /\ left = WaitMs /\ armed /\ "timer" \in notif

====
